---------------------------- MODULE Spec2Model ----------------------------
(***************************************************************************)
(* Model of src/script.py: the calibration script that, for every sheet of *)
(* a workbook, reduces replicate time series to areas under the curve,     *)
(* fits a straight line to (label, mean AUC), runs the lack-of-fit test,   *)
(* saves a plot and appends one row to the summary, and after the loop     *)
(* writes the summary table.                                               *)
(*                                                                         *)
(* Floating-point values are modelled exactly: a value is a record         *)
(* [k, n, d] that is a rational n/d in lowest terms (k = "num"), a NaN, an *)
(* infinity of sign n (k = "inf"), or a finite non-zero float whose digits  *)
(* the model does not carry because they need a square root or a           *)
(* distribution function (k = "real").  Rounding error is not modelled.    *)
(*                                                                         *)
(* Cell and header texts are sequences of one-character strings.           *)
(***************************************************************************)
EXTENDS Integers, Sequences, FiniteSets, TLC

-----------------------------------------------------------------------------
(* Bounds of the model. *)

\* Largest number of sheets in a workbook.
MaxSheets == 2
\* Largest number of complete replicate groups in a sheet of the pipeline.
MaxGroups == 3
\* Largest sheet width (columns, time column included) for group extraction.
MaxWidth == 60
\* Largest number of body rows of the sheets drawn for the reduction.
MaxBody == 3

(* Constants of the program. *)

\* df.iloc[3:33, ...]: the first body row and the row after the last.
FirstBodyRow == 3
EndBodyRow == 33
\* range(0, len(cols), 4) and cols[i:i+3].
Stride == 4
GroupSize == 3
\* n_rep = 3
n_rep == 3

-----------------------------------------------------------------------------
(* Floating-point values. *)

Abs(a) == IF a < 0 THEN -a ELSE a

RECURSIVE GCD(_, _)
GCD(a, b) == IF b = 0 THEN a ELSE GCD(b, a % b)

NaN == [k |-> "nan", n |-> 0, d |-> 1]
Real == [k |-> "real", n |-> 0, d |-> 1]
Inf(s) == [k |-> "inf", n |-> s, d |-> 1]

\* The rational n/d, d # 0, in lowest terms with a positive denominator.
Num(n, d) ==
  LET g == GCD(Abs(n), Abs(d))
      s == IF d < 0 THEN -1 ELSE 1
  IN  [k |-> "num", n |-> s * (n \div g), d |-> s * (d \div g)]

Int2F(i) == [k |-> "num", n |-> i, d |-> 1]
Zero == Int2F(0)

isnan(a) == a.k = "nan"
Sign(a) == IF a.n > 0 THEN 1 ELSE IF a.n < 0 THEN -1 ELSE 0

\* a == b on floats: a NaN equals nothing, itself included.
FEq(a, b) == a.k # "nan" /\ b.k # "nan" /\ a = b

FNeg(a) ==
  CASE a.k = "num" -> [a EXCEPT !.n = -a.n]
    [] a.k = "inf" -> Inf(-a.n)
    [] OTHER -> a

FAdd(a, b) ==
  CASE a.k = "nan" \/ b.k = "nan" -> NaN
    [] a.k = "inf" /\ b.k = "inf" -> IF a.n = b.n THEN a ELSE NaN
    [] a.k = "inf" -> a
    [] b.k = "inf" -> b
    [] a.k = "real" \/ b.k = "real" -> Real
    [] OTHER -> Num(a.n * b.d + b.n * a.d, a.d * b.d)

FSub(a, b) == FAdd(a, FNeg(b))

FMul(a, b) ==
  CASE a.k = "nan" \/ b.k = "nan" -> NaN
    [] a.k = "inf" \/ b.k = "inf" ->
         IF Sign(a) * Sign(b) = 0 /\ a.k # "real" /\ b.k # "real" THEN NaN
         ELSE IF a.k = "real" \/ b.k = "real" THEN Real
         ELSE Inf(Sign(a) * Sign(b))
    [] a = Zero \/ b = Zero -> Zero
    [] a.k = "real" \/ b.k = "real" -> Real
    [] OTHER -> Num(a.n * b.n, a.d * b.d)

\* numpy's float division: x/0 is an infinity, 0/0 a NaN, neither raises.
FDiv(a, b) ==
  CASE a.k = "nan" \/ b.k = "nan" -> NaN
    [] a.k = "inf" /\ b.k = "inf" -> NaN
    [] a.k = "inf" -> IF b.k = "real" THEN Real
                      ELSE Inf(a.n * (IF Sign(b) < 0 THEN -1 ELSE 1))
    [] b.k = "inf" -> Zero
    [] b.k = "real" -> IF a = Zero THEN Zero ELSE Real
    [] a.k = "real" -> Real
    [] b.n = 0 -> IF a.n = 0 THEN NaN ELSE Inf(Sign(a))
    [] OTHER -> Num(a.n * b.d, a.d * b.n)

RECURSIVE FSum(_)
\* np.sum of a sequence of floats; the empty sum is 0.
FSum(s) == IF s = <<>> THEN Zero ELSE FAdd(Head(s), FSum(Tail(s)))

\* np.mean: the sum over the count; of nothing, 0/0 = NaN (a warning, no raise).
FMean(s) == FDiv(FSum(s), Int2F(Len(s)))

\* A square root, exact for 0 and 1 and a float without digits otherwise.
FSqrt(a) ==
  CASE a.k = "nan" -> NaN
    [] a.k = "inf" -> IF a.n > 0 THEN a ELSE NaN
    [] a.k = "real" -> Real
    [] a.n < 0 -> NaN
    [] a.n = 0 \/ (a.n = 1 /\ a.d = 1) -> a
    [] OTHER -> Real

-----------------------------------------------------------------------------
(* Texts. *)

Digits == <<"0", "1", "2", "3", "4", "5", "6", "7", "8", "9">>

\* str.isdigit, on the characters the model draws.
isdigit(c) == \E i \in 1..10 : Digits[i] = c

DigitVal(c) == (CHOOSE i \in 1..10 : Digits[i] = c) - 1

RECURSIVE FilterChars(_, _)
\* The characters of s that are in keep, in order.
FilterChars(s, keep) ==
  IF s = <<>> THEN <<>>
  ELSE IF Head(s) \in keep THEN <<Head(s)>> \o FilterChars(Tail(s), keep)
  ELSE FilterChars(Tail(s), keep)

DigitChars == {Digits[i] : i \in 1..10}

RECURSIVE IntOf(_)
\* The value of a sequence of digits read in base 10; of no digit, 0.
IntOf(s) ==
  IF s = <<>> THEN 0
  ELSE 10 * IntOf(SubSeq(s, 1, Len(s) - 1)) + DigitVal(s[Len(s)])

RECURSIVE Pow10(_)
Pow10(e) == IF e = 0 THEN 1 ELSE 10 * Pow10(e - 1)

\* Whether s, a text of digits and periods, is a decimal literal: at least
\* one digit and at most one period.
IsDecimal(s) ==
  /\ \A i \in 1..Len(s) : isdigit(s[i]) \/ s[i] = "."
  /\ \E i \in 1..Len(s) : isdigit(s[i])
  /\ Cardinality({i \in 1..Len(s) : s[i] = "."}) <= 1

\* The value of a decimal literal.
DecimalVal(s) ==
  LET dots == {i \in 1..Len(s) : s[i] = "."}
      frac == IF dots = {} THEN 0 ELSE Len(s) - (CHOOSE i \in dots : TRUE)
  IN  Num(IntOf(FilterChars(s, DigitChars)), Pow10(frac))


RECURSIVE IntText(_)
\* str(i) for a natural number i.
IntText(i) ==
  IF i < 10 THEN <<Digits[i + 1]>>
  ELSE IntText(i \div 10) \o <<Digits[(i % 10) + 1]>>

RECURSIVE Replace(_, _, _)
\* str.replace(old, new) for single characters.
Replace(s, old, new) ==
  IF s = <<>> THEN <<>>
  ELSE <<IF Head(s) = old THEN new ELSE Head(s)>> \o Replace(Tail(s), old, new)

-----------------------------------------------------------------------------
(* A sheet, as pd.read_excel(header=None) returns it: a sequence of columns, *)
(* column 0 first, each a sequence of cells, row 0 first.  A cell is its    *)
(* text; the empty text is an empty cell, which pandas reads as NaN.        *)

Min(a, b) == IF a < b THEN a ELSE b

\* s[a:b] of Python, for 0 <= a <= b.
PySlice(s, a, b) == SubSeq(s, a + 1, Min(b, Len(s)))

\* df.shape[1]
Width(sheet) == Len(sheet)

\* str(cell): the text of a text cell, "nan" for an empty one.
Str(cell) == IF cell = <<>> THEN <<"n", "a", "n">> ELSE cell

\* .replace(r'[^\d.-]', '', regex=True): what is left of a cell's text.
StripCell(cell) == FilterChars(cell, DigitChars \cup {".", "-"})

\* pd.to_numeric(text, errors='coerce') on a text of digits, periods and
\* minus signs: the number it spells, or NaN.
to_numeric(s) ==
  IF s = <<>> THEN NaN
  ELSE IF Head(s) = "-"
       THEN IF IsDecimal(Tail(s)) THEN FNeg(DecimalVal(Tail(s))) ELSE NaN
       ELSE IF IsDecimal(s) THEN DecimalVal(s) ELSE NaN

Coerce(cell) == to_numeric(StripCell(cell))

\* df.iloc[3:33, c] coerced to numbers: the body of column c (counted from 0).
BodyOf(sheet, c) ==
  LET rows == PySlice(sheet[c + 1], FirstBodyRow, EndBodyRow)
  IN  [i \in 1..Len(rows) |-> Coerce(rows[i])]

RECURSIVE GroupLoop(_, _)
\* for i in range(i, len(cols), 4): keep cols[i:i+3] when it has 3 columns.
\* GroupLoopAny is the variant that keeps every window, whatever its length.
GroupLoopAny(cols, i) ==
  IF i >= Len(cols) THEN <<>>
  ELSE <<PySlice(cols, i, i + GroupSize)>> \o GroupLoop(cols, i + Stride)

GroupLoop(cols, i) ==
  IF i >= Len(cols) THEN <<>>
  ELSE LET group == PySlice(cols, i, i + GroupSize)
       IN  (IF Len(group) = GroupSize THEN <<group>> ELSE <<>>)
             \o GroupLoop(cols, i + Stride)

\* grouped_cols of a sheet: cols = list(range(1, df.shape[1])), then the loop.
GroupedCols(sheet) ==
  LET cols == [i \in 1..(IF Width(sheet) > 0 THEN Width(sheet) - 1 ELSE 0) |-> i]
  IN  GroupLoop(cols, 0)

\* The variant of np.trapz(y, x) that does not halve.
trapz_nohalf(y, x) ==
  FSum([i \in 1..(IF Len(x) > 0 THEN Len(x) - 1 ELSE 0) |->
          FMul(FSub(x[i + 1], x[i]), FAdd(y[i + 1], y[i]))])

\* np.trapz(y, x): d = diff(x); sum(d * (y[1:] + y[:-1]) / 2.0).
trapz(y, x) ==
  FSum([i \in 1..(IF Len(x) > 0 THEN Len(x) - 1 ELSE 0) |->
          FDiv(FMul(FSub(x[i + 1], x[i]), FAdd(y[i + 1], y[i])), Int2F(2))])

\* areas of one group: the AUC of each of its 3 columns.
Areas(sheet, time, group) ==
  [i \in 1..Len(group) |-> trapz(BodyOf(sheet, group[i]), time)]

FSq(a) == FMul(a, a)

\* np.std(a, ddof=1)
std1(a) ==
  LET m == FMean(a)
  IN  FSqrt(FDiv(FSum([i \in 1..Len(a) |-> FSq(FSub(a[i], m))]),
                 Int2F(Len(a) - 1)))

\* The concentration label of a header cell: the digits and periods of its
\* text parsed by float(), NaN when none is left; float() raises ValueError
\* on a text that is no decimal literal.
LabelOf(cell) ==
  LET number == FilterChars(Str(cell), DigitChars \cup {"."})
  IN  IF number = <<>> THEN [raises |-> FALSE, v |-> NaN]
      ELSE IF IsDecimal(number) THEN [raises |-> FALSE, v |-> DecimalVal(number)]
      ELSE [raises |-> TRUE, v |-> NaN]

-----------------------------------------------------------------------------
(* scipy.stats.linregress(x, y), as the call of line 89 uses it. *)

RECURSIVE FMax(_)
FMax(s) ==
  IF Len(s) = 1 THEN Head(s)
  ELSE LET m == FMax(Tail(s))
       IN  IF isnan(Head(s)) \/ isnan(m) THEN NaN
           ELSE IF FSub(Head(s), m).n > 0 THEN Head(s) ELSE m

RECURSIVE FMin(_)
FMin(s) ==
  IF Len(s) = 1 THEN Head(s)
  ELSE LET m == FMin(Tail(s))
       IN  IF isnan(Head(s)) \/ isnan(m) THEN NaN
           ELSE IF FSub(Head(s), m).n < 0 THEN Head(s) ELSE m

\* linregress raises ValueError on empty inputs, and when there are two or
\* more x values and they are all equal.
linregress_raises(x) ==
  \/ Len(x) = 0
  \/ Len(x) > 1 /\ FEq(FMax(x), FMin(x))

\* The fit of a non-raising call: ssxm, ssxym and ssym are the entries of
\* np.cov(x, y, bias=1).
linregress(x, y) ==
  LET n == Len(x)
      xmean == FMean(x)
      ymean == FMean(y)
      ssxm == FMean([i \in 1..n |-> FSq(FSub(x[i], xmean))])
      ssxym == FMean([i \in 1..n |-> FMul(FSub(x[i], xmean), FSub(y[i], ymean))])
      ssym == FMean([i \in 1..n |-> FSq(FSub(y[i], ymean))])
      r == IF FEq(ssxm, Zero) \/ FEq(ssym, Zero) THEN Zero
           ELSE FDiv(ssxym, FSqrt(FMul(ssxm, ssym)))
      slope == FDiv(ssxym, ssxm)
      prob == IF n = 2 THEN (IF FEq(y[1], y[2]) THEN Int2F(1) ELSE Zero)
              ELSE IF n < 2 \/ isnan(r) THEN NaN
              ELSE IF r = Zero THEN Int2F(1)
              ELSE Real
  IN  [slope |-> slope,
       intercept |-> FSub(ymean, FMul(slope, xmean)),
       r_value |-> r,
       p_value |-> prob]

NoFit == [slope |-> NaN, intercept |-> NaN, r_value |-> NaN, p_value |-> NaN]

-----------------------------------------------------------------------------
(* The lack-of-fit block, lines 93-125. *)

\* all_x: each group's label once per replicate area.
AllX(labs, ars) ==
  [i \in 1..(GroupSize * Len(labs)) |-> labs[((i - 1) \div GroupSize) + 1]]

\* all_y: the replicate areas, group after group.
AllY(ars) ==
  [i \in 1..(GroupSize * Len(ars)) |->
     ars[((i - 1) \div GroupSize) + 1][((i - 1) % GroupSize) + 1]]

\* np.unique(all_x): the distinct levels; NaN labels make one level.
Unique(all_x) == {all_x[i] : i \in 1..Len(all_x)}

RECURSIVE Select(_, _)
\* all_y[mask]: the entries of ys at the positions where xs == conc.
Select(ys, mask) ==
  IF ys = <<>> THEN <<>>
  ELSE (IF Head(mask) THEN <<Head(ys)>> ELSE <<>>) \o Select(Tail(ys), Tail(mask))

\* y_rep of a level.
YRep(all_x, all_y, conc) ==
  Select(all_y, [i \in 1..Len(all_x) |-> FEq(all_x[i], conc)])

\* The sum of squared deviations of a sequence from its mean.
SSDev(ys) ==
  LET m == FMean(ys)
  IN  FSum([i \in 1..Len(ys) |-> FSq(FSub(ys[i], m))])

RECURSIVE SumOver(_, _, _)
\* ss_pe accumulated over a set of levels.
SumOver(levels, all_x, all_y) ==
  IF levels = {} THEN Zero
  ELSE LET conc == CHOOSE c \in levels : TRUE
       IN  FAdd(SSDev(YRep(all_x, all_y, conc)),
                SumOver(levels \ {conc}, all_x, all_y))

\* scipy.stats.f.cdf(F, dfn, dfd), read through 1 - cdf: NaN outside the
\* distribution's parameters (dfn, dfd > 0).
UpperTailF(F, dfn, dfd) ==
  CASE isnan(F) \/ dfn <= 0 \/ dfd <= 0 -> NaN
    [] F.k = "inf" -> IF F.n > 0 THEN Zero ELSE Int2F(1)
    [] F.k = "num" /\ F.n <= 0 -> Int2F(1)
    [] OTHER -> Real

\* F_lof without the ms_pe guard: the variant that always divides.
F_lof_unguarded(ms_lof, ms_pe) == FDiv(ms_lof, ms_pe)

\* F_lof = ms_lof / ms_pe if ms_pe != 0 else np.nan
F_lof_of(ms_lof, ms_pe) ==
  IF ~FEq(ms_pe, Zero) THEN FDiv(ms_lof, ms_pe) ELSE NaN

\* df_pe = len(np.unique(all_x)) * (n_rep - 1)
df_pe_of(all_x, all_y) == Cardinality(Unique(all_x)) * (n_rep - 1)

LackOfFitOf(labs, ars, fit) ==
  LET all_x == AllX(labs, ars)
      all_y == AllY(ars)
      y_pred_all == [i \in 1..Len(all_x) |->
                       FAdd(FMul(fit.slope, all_x[i]), fit.intercept)]
      ss_res == FSum([i \in 1..Len(all_y) |-> FSq(FSub(all_y[i], y_pred_all[i]))])
      ss_pe == SumOver(Unique(all_x), all_x, all_y)
      df_pe == df_pe_of(all_x, all_y)
      ss_lof == FSub(ss_res, ss_pe)
      df_lof == Cardinality(Unique(all_x)) - 2
      ms_lof == FDiv(ss_lof, Int2F(df_lof))
      ms_pe == FDiv(ss_pe, Int2F(df_pe))
      F_lof == F_lof_of(ms_lof, ms_pe)
      p_lof == IF ~isnan(F_lof) THEN UpperTailF(F_lof, df_lof, df_pe) ELSE NaN
  IN  [all_x |-> all_x, all_y |-> all_y, ss_res |-> ss_res, ss_pe |-> ss_pe,
       df_pe |-> df_pe, ss_lof |-> ss_lof, df_lof |-> df_lof,
       ms_lof |-> ms_lof, ms_pe |-> ms_pe, F_lof |-> F_lof, p_lof |-> p_lof]

NoLof ==
  [all_x |-> <<>>, all_y |-> <<>>, ss_res |-> NaN, ss_pe |-> NaN, df_pe |-> 0,
   ss_lof |-> NaN, df_lof |-> 0, ms_lof |-> NaN, ms_pe |-> NaN,
   F_lof |-> NaN, p_lof |-> NaN]

-----------------------------------------------------------------------------
(* The summary row, lines 146-161. *)

\* x_zero without the slope guard: the variant that always divides.
x_zero_unguarded(fit) == FDiv(FNeg(fit.intercept), fit.slope)

\* x_zero = -intercept / slope if slope != 0 else np.nan
x_zero_of(fit) ==
  IF ~FEq(fit.slope, Zero) THEN FDiv(FNeg(fit.intercept), fit.slope) ELSE NaN

\* n/d rounded to an integer, halves to the even neighbour.
RoundHalfEven(n, d) ==
  LET q == (2 * n + d) \div (2 * d)
  IN  IF (2 * n + d) % (2 * d) = 0 /\ q % 2 = 1 THEN q - 1 ELSE q

\* f'{v:.<prec>f}': the text of a float.  A rational is given by the integer
\* its prec decimals spell; a float without digits by its kind alone.
Fixed(v, prec) ==
  CASE v.k = "nan" -> [t |-> "nan", q |-> 0]
    [] v.k = "inf" -> [t |-> IF v.n > 0 THEN "inf" ELSE "-inf", q |-> 0]
    [] v.k = "real" -> [t |-> "digits", q |-> 0]
    [] OTHER -> [t |-> "fixed", q |-> RoundHalfEven(v.n * Pow10(prec), v.d)]

\* f'{v:.3e}': as Fixed; the model's exact values here are 0 and 1 only.
Sci(v) ==
  CASE v.k = "nan" -> [t |-> "nan", q |-> 0]
    [] v.k = "inf" -> [t |-> IF v.n > 0 THEN "inf" ELSE "-inf", q |-> 0]
    [] v.k = "real" -> [t |-> "digits", q |-> 0]
    [] OTHER -> [t |-> "sci", q |-> RoundHalfEven(v.n * Pow10(3), v.d)]

NA == [t |-> "N/A", q |-> 0]

SummaryRow(sheet_name, labs, means, sds, fit, lof) ==
  LET x_zero == x_zero_of(fit)
  IN  [name |-> sheet_name,
       conc |-> [i \in 1..Len(labs) |-> Fixed(labs[i], 2)],
       avg |-> [i \in 1..Len(means) |-> Fixed(means[i], 2)],
       sd |-> [i \in 1..Len(sds) |-> Fixed(sds[i], 2)],
       R |-> Fixed(fit.r_value, 3),
       Slope |-> Fixed(fit.slope, 3),
       Intercept |-> Fixed(fit.intercept, 3),
       p_value |-> Sci(fit.p_value),
       F_lof |-> Fixed(lof.F_lof, 3),
       p_lof |-> IF ~isnan(lof.p_lof) THEN Sci(lof.p_lof) ELSE NA,
       x_zero |-> IF ~isnan(x_zero) THEN Fixed(x_zero, 3) ELSE NA]

\* The plot's file name: f"{sheet_name.replace('/', '_')}.png" in the folder.
PlotFile(sheet_name) == Replace(sheet_name, "/", "_")

-----------------------------------------------------------------------------
(* The sheets the model draws. *)

HeaderPatterns == {"distinct", "dup", "blank", "dot"}
BodyPatterns == {"flat", "bend", "curve", "bad"}

\* The header cell of group k (counted from 0): a label and a unit, the same
\* label for two groups in a row, no digit at all, or a period and no digit.
HeaderText(hp, k) ==
  CASE hp = "dup" -> IntText((k \div 2) + 1) \o <<" ", "u", "M">>
    [] hp = "blank" /\ k = 0 -> <<"b", "l", "a", "n", "k">>
    [] hp = "dot" /\ k = 0 -> <<"c", "t", "r", "l", ".">>
    [] OTHER -> IntText(k) \o <<" ", "u", "M">>

\* The body cell of replicate j of group k at body row i (all from 0): the
\* same signal everywhere, one signal per group that bends over the groups,
\* a signal that also differs between replicates, or the latter with one
\* cell that holds a dash instead of a number.
BodyText(bp, k, j, i) ==
  CASE bp = "flat" -> <<"2">>
    [] bp = "bend" -> IntText(k * k)
    [] bp = "bad" /\ k = 0 /\ j = 0 /\ i = 0 -> <<"-">>
    [] OTHER -> IntText(k * k + j)

\* A sheet of w columns and nb body rows: the time column counts the body
\* rows from 0; every fourth data column is an empty spacer.
MkSheet(w, nb, hp, bp) ==
  [c1 \in 1..w |->
     [r1 \in 1..(FirstBodyRow + nb) |->
        LET c == c1 - 1
            r == r1 - 1
            k == (c - 1) \div Stride
            j == (c - 1) % Stride
        IN  IF c = 0
            THEN (IF r < FirstBodyRow THEN (IF r = 0 THEN <<"t">> ELSE <<>>)
                  ELSE IntText(r - FirstBodyRow) \o <<" ", "s">>)
            ELSE IF r = 0 THEN (IF j = 0 THEN HeaderText(hp, k) ELSE <<>>)
            ELSE IF r < FirstBodyRow \/ j = GroupSize THEN <<>>
            ELSE BodyText(bp, k, j, r - FirstBodyRow)]]

\* The sheets of the pipeline: the empty sheet, a sheet of two data columns
\* (an incomplete group and nothing else), and for 1..MaxGroups groups,
\* followed by an incomplete one, every body pattern under distinct labels
\* and every header pattern over the scattered, bent signal.
SheetSet ==
  {<<>>, MkSheet(GroupSize, MaxBody, "distinct", "flat")}
    \cup {MkSheet(Stride * g + GroupSize, MaxBody, "distinct", bp) :
            g \in 1..MaxGroups, bp \in BodyPatterns}
    \cup {MkSheet(Stride * g + GroupSize, MaxBody, hp, "curve") :
            g \in 1..MaxGroups, hp \in HeaderPatterns}

TimeTexts == {<<"1">>, <<"3", "s">>, <<>>}
CellTexts == {<<"2">>, <<"-", "1">>, <<"1", ".", "5">>, <<"x">>}

\* A sheet of one group whose time cells are ts and whose first replicate's
\* cells are ys; the second replicate holds them in reverse, the third is 1.
TraceSheet(ts, ys) ==
  LET nb == Len(ts)
      hdr(t) == <<t, <<>>, <<>>>>
  IN  <<hdr(<<"t">>) \o ts,
        hdr(<<"1">>) \o ys,
        hdr(<<>>) \o [i \in 1..nb |-> ys[nb + 1 - i]],
        hdr(<<>>) \o [i \in 1..nb |-> <<"1">>]>>

\* A sheet longer than the body: rows past row 32 hold text, not numbers.
LongSheet(extra) ==
  LET col(h, f(_)) ==
        [r1 \in 1..(EndBodyRow + extra) |->
           IF r1 = 1 THEN h
           ELSE IF r1 <= FirstBodyRow THEN <<>>
           ELSE IF r1 > EndBodyRow THEN <<"e", "n", "d">>
           ELSE f(r1 - 1 - FirstBodyRow)]
      t(i) == IntText(i)
      y1(i) == IntText(i % 3)
      y2(i) == <<"1">>
  IN  <<col(<<"t">>, t), col(<<"5">>, y1), col(<<>>, y2), col(<<>>, y2)>>

\* The sheets of the reduction: the traces of nb body rows, and with them
\* (under nb = 0) every width with one body row, long sheets, and a header
\* float() rejects.
ReduceSheets(nb) ==
  IF nb = 0
    THEN {MkSheet(w, 1, "distinct", "flat") : w \in 0..MaxWidth}
           \cup {LongSheet(e) : e \in 0..2}
           \cup {MkSheet(Stride, 2, "dot", "flat"), TraceSheet(<<>>, <<>>)}
    ELSE {TraceSheet(ts, ys) : ts \in [1..nb -> TimeTexts],
                               ys \in [1..nb -> CellTexts]}

\* The i-th sheet name of a workbook.
SheetName(i) == <<"S", "/">> \o IntText(i)

-----------------------------------------------------------------------------
(* The state of the script. *)

VARIABLES
  sheets,        \* sheet_names of the workbook
  idx,           \* position of the loop in sheets, from 1
  pc,            \* the statement the script is at
  exc,           \* the exception that ended the run, "none" if none
  df,            \* the sheet being processed
  time,          \* the time vector
  grouped_cols,  \* the replicate groups
  areas,         \* the areas of every group, group after group
  mean_areas, std_areas, labels,
  fit,           \* slope, intercept, r_value, p_value
  lof,           \* the values of the lack-of-fit block
  files,         \* the plot files saved
  summary_data,  \* the rows appended so far
  table          \* the results table on disk

vars == <<sheets, idx, pc, exc, df, time, grouped_cols, areas, mean_areas,
          std_areas, labels, fit, lof, files, summary_data, table>>

locals == <<time, grouped_cols, areas, mean_areas, std_areas, labels, fit, lof>>

NoTable == [written |-> FALSE, rows |-> <<>>]

\* The state at line 47, before the loop: a workbook of 1..MaxSheets sheets.
Init ==
  /\ sheets \in {[i \in 1..n |-> SheetName(i)] : n \in 1..MaxSheets}
  /\ idx = 1
  /\ pc = "read"
  /\ exc = "none"
  /\ df = <<>>
  /\ time = <<>>
  /\ grouped_cols = <<>>
  /\ areas = <<>>
  /\ mean_areas = <<>>
  /\ std_areas = <<>>
  /\ labels = <<>>
  /\ fit = NoFit
  /\ lof = NoLof
  /\ files = {}
  /\ summary_data = <<>>
  /\ table = NoTable

\* The state after the first sheet of a one-sheet workbook is read (line 51),
\* the sheet drawn from the sheets of the reduction.
InitReduce ==
  /\ sheets = <<SheetName(1)>>
  /\ idx = 1
  /\ pc = "time"
  /\ exc = "none"
  /\ \E nb \in 0..MaxBody : df \in ReduceSheets(nb)
  /\ time = <<>>
  /\ grouped_cols = <<>>
  /\ areas = <<>>
  /\ mean_areas = <<>>
  /\ std_areas = <<>>
  /\ labels = <<>>
  /\ fit = NoFit
  /\ lof = NoLof
  /\ files = {}
  /\ summary_data = <<>>
  /\ table = NoTable

Raise(e) ==
  /\ pc' = "raised"
  /\ exc' = e

\* Line 51: df = pd.read_excel(excel_file, sheet_name=sheet_name, header=None)
ReadSheet ==
  /\ pc = "read"
  /\ idx <= Len(sheets)
  /\ \E sh \in SheetSet : df' = sh
  /\ pc' = "time"
  /\ UNCHANGED <<sheets, idx, exc, locals, files, summary_data, table>>

\* Lines 54-62: the time vector and the groups.  df.iloc[3:33, 0] raises
\* IndexError on a sheet without columns.
TimeAndGroups ==
  /\ pc = "time"
  /\ \/ /\ Width(df) = 0
        /\ Raise("IndexError")
        /\ UNCHANGED <<time, grouped_cols>>
     \/ /\ Width(df) > 0
        /\ time' = BodyOf(df, 0)
        /\ grouped_cols' = GroupedCols(df)
        /\ pc' = "reduce"
        /\ exc' = exc
  /\ UNCHANGED <<sheets, idx, df, areas, mean_areas, std_areas, labels, fit,
                 lof, files, summary_data, table>>

\* The header cell of a group: df.iloc[0, c1].
HeaderCell(group) == df[group[1] + 1][1]

\* Lines 64-82: areas, mean, SD and label of every group, in order.  float()
\* raises ValueError at the first group whose label it rejects, after that
\* group's mean and SD were appended.
Reduce ==
  /\ pc = "reduce"
  /\ LET n == Len(grouped_cols)
         bad == {g \in 1..n : LabelOf(HeaderCell(grouped_cols[g])).raises}
         stop == IF bad = {} THEN n ELSE CHOOSE g \in bad : \A h \in bad : g <= h
         ars == [g \in 1..stop |-> Areas(df, time, grouped_cols[g])]
     IN  /\ areas' = ars
         /\ mean_areas' = [g \in 1..stop |-> FMean(ars[g])]
         /\ std_areas' = [g \in 1..stop |-> std1(ars[g])]
         /\ \/ /\ bad = {}
               /\ labels' = [g \in 1..n |-> LabelOf(HeaderCell(grouped_cols[g])).v]
               /\ pc' = "fit"
               /\ exc' = exc
            \/ /\ bad # {}
               /\ labels' = [g \in 1..(stop - 1) |->
                               LabelOf(HeaderCell(grouped_cols[g])).v]
               /\ Raise("ValueError")
  /\ UNCHANGED <<sheets, idx, df, time, grouped_cols, fit, lof, files,
                 summary_data, table>>

\* Lines 85-90: the regression of the means on the labels.
Fit ==
  /\ pc = "fit"
  /\ \/ /\ linregress_raises(labels)
        /\ Raise("ValueError")
        /\ fit' = fit
     \/ /\ ~linregress_raises(labels)
        /\ fit' = linregress(labels, mean_areas)
        /\ pc' = "lof"
        /\ exc' = exc
  /\ UNCHANGED <<sheets, idx, df, time, grouped_cols, areas, mean_areas,
                 std_areas, labels, lof, files, summary_data, table>>

\* Lines 93-125: the lack-of-fit test, on areas computed again per group.
LackOfFit ==
  /\ pc = "lof"
  /\ LET ars == [g \in 1..Len(grouped_cols) |-> Areas(df, time, grouped_cols[g])]
     IN  /\ areas' = ars
         /\ lof' = LackOfFitOf(labels, ars, fit)
  /\ pc' = "plot"
  /\ UNCHANGED <<sheets, idx, exc, df, time, grouped_cols, mean_areas,
                 std_areas, labels, fit, files, summary_data, table>>

\* Lines 129-143: the plot of the sheet is saved under the sheet's name.
SavePlot ==
  /\ pc = "plot"
  /\ files' = files \cup {PlotFile(sheets[idx])}
  /\ pc' = "append"
  /\ UNCHANGED <<sheets, idx, exc, df, locals, summary_data, table>>

\* The variant of AppendRow that puts the row in front.
AppendRowFront ==
  /\ pc = "append"
  /\ summary_data' = <<SummaryRow(sheets[idx], labels, mean_areas,
                                  std_areas, fit, lof)>> \o summary_data
  /\ idx' = idx + 1
  /\ pc' = "read"
  /\ UNCHANGED <<sheets, exc, df, locals, files, table>>

\* Lines 146-161: the row of the sheet is appended; the loop goes on.
AppendRow ==
  /\ pc = "append"
  /\ summary_data' = Append(summary_data,
                            SummaryRow(sheets[idx], labels, mean_areas,
                                       std_areas, fit, lof))
  /\ idx' = idx + 1
  /\ pc' = "read"
  /\ UNCHANGED <<sheets, exc, df, locals, files, table>>

\* The variant of SaveResults inside the loop: the table is written at every
\* loop head, and once more after the last sheet.
SaveResultsEachSheet ==
  /\ pc = "read"
  /\ table' = [written |-> TRUE, rows |-> summary_data]
  /\ table' # table
  /\ pc' = IF idx > Len(sheets) THEN "done" ELSE pc
  /\ UNCHANGED <<sheets, idx, exc, df, locals, files, summary_data>>

\* Lines 164-170, after the loop: the table of all rows is written.
SaveResults ==
  /\ pc = "read"
  /\ idx > Len(sheets)
  /\ table' = [written |-> TRUE, rows |-> summary_data]
  /\ pc' = "done"
  /\ UNCHANGED <<sheets, idx, exc, df, locals, files, summary_data>>

Next ==
  \/ ReadSheet
  \/ TimeAndGroups
  \/ Reduce
  \/ Fit
  \/ LackOfFit
  \/ SavePlot
  \/ AppendRow
  \/ SaveResults

Spec == Init /\ [][Next]_vars

NextReduce ==
  \/ TimeAndGroups
  \/ Reduce

SpecReduce == InitReduce /\ [][NextReduce]_vars

-----------------------------------------------------------------------------
(* Properties. *)

\* The statements after the reduction of the sheet in df, up to its row.
AfterReduce == {"fit", "lof", "plot", "append"}
\* The statements after the lack-of-fit block of the sheet in df.
AfterLof == {"plot", "append"}
\* The row of the sheet in df has just been appended.
RowAppended == pc = "read" /\ idx > 1

LastRow == summary_data[Len(summary_data)]

\* Whether float() rejects the header of some group of the sheet in df.
SomeHeaderRejected ==
  \E g \in 1..Len(grouped_cols) : LabelOf(HeaderCell(grouped_cols[g])).raises

\* C1: no per-sheet condition of the error taxonomy (a malformed cell, a zero
\* slope, zero-variance residuals, too little replication for the
\* lack-of-fit test, an incomplete trailing group) halts the run: the run is
\* halted only by a sheet without any column or by a header float() rejects,
\* and a run that ends has one row per sheet.
C1_SheetConditionsDoNotHalt ==
  /\ pc = "raised" => (Width(df) = 0 \/ SomeHeaderRejected)
  /\ pc = "done" => Len(summary_data) = Len(sheets)

\* The groups of a sheet with c non-time columns, as the layout states them:
\* (1+4k, 2+4k, 3+4k) for every k >= 0 with 3+4k <= c.
ExpectedGroups(c) ==
  [k1 \in 1..((c + 1) \div 4) |-> <<4 * k1 - 3, 4 * k1 - 2, 4 * k1 - 1>>]

\* C2: for a sheet with c non-time columns, group extraction yields exactly
\* the groups (1+4k, 2+4k, 3+4k) with 3+4k <= c, from left to right: every
\* group is 3 consecutive columns, no spacer column 4+4k is in a group, and
\* a trailing window of fewer than 3 columns is dropped without an error.
C2_GroupsAreStrideWindows ==
  (pc # "time" /\ Width(df) > 0) =>
    /\ grouped_cols = ExpectedGroups(Width(df) - 1)
    /\ \A g \in 1..Len(grouped_cols) :
         /\ Len(grouped_cols[g]) = 3
         /\ grouped_cols[g][2] = grouped_cols[g][1] + 1
         /\ grouped_cols[g][3] = grouped_cols[g][1] + 2
         /\ \A j \in 1..3 : grouped_cols[g][j] % 4 # 0
                            /\ grouped_cols[g][j] <= Width(df) - 1
    /\ Len(grouped_cols) * 4 + 3 > Width(df) - 1
    /\ pc = "raised" => SomeHeaderRejected

\* Two groups found and a trailing window of two columns dropped.
C2_Witness ==
  /\ pc = "reduce"
  /\ Width(df) = 11
  /\ grouped_cols = <<<<1, 2, 3>>, <<5, 6, 7>>>>

HasDigit(text) == \E i \in 1..Len(text) : isdigit(text[i])

\* C3: the label of a header is the float its digits and periods spell; a
\* header without a digit gives a NaN label and never raises, and its group
\* is still in the label, mean and SD lists.
C3_NoDigitHeaderIsNaN ==
  (pc \in AfterReduce \cup {"raised"} /\ Width(df) > 0) =>
    \A g \in 1..Len(grouped_cols) :
      ~HasDigit(Str(HeaderCell(grouped_cols[g]))) =>
        /\ pc # "raised"
        /\ g <= Len(labels) /\ isnan(labels[g])
        /\ g <= Len(mean_areas)
        /\ g <= Len(std_areas)

\* An undefined value as the row shows it: N/A, or the text of a NaN.
ShownUndefined(field) == field.t \in {"N/A", "nan"}

\* C4: whenever df_lof = (number of distinct levels) - 2 is below 1, or
\* df_pe is below 1, the lack-of-fit F and p-value of the sheet are reported
\* as not applicable, and the sheet still gets its summary row: the run is
\* not halted on a sheet whose labels are all read and give df_lof < 1.
C4_LofNotApplicable ==
  /\ (RowAppended /\ (lof.df_lof < 1 \/ lof.df_pe < 1)) =>
       /\ ShownUndefined(LastRow.F_lof)
       /\ LastRow.p_lof = NA
  /\ (pc = "raised" /\ Width(df) > 0 /\ ~SomeHeaderRejected) =>
       ~(Cardinality(Unique(labels)) - 2 < 1)

\* C5: when the fitted slope is exactly 0, the x-intercept is reported as
\* undefined (N/A), not computed by a division, and the sheet is completed
\* without raising: from the fit on, every step of the sheet leads to the
\* next statement until the row is appended.
C5_ZeroSlopeUndefined ==
  /\ [](RowAppended /\ FEq(fit.slope, Zero) =>
          /\ LastRow.x_zero = NA
          /\ LastRow.name = sheets[idx - 1])
  /\ [][(pc \in {"lof", "plot", "append"} /\ FEq(fit.slope, Zero)) =>
          pc' \in {"plot", "append", "read"}]_vars

\* A row of three groups with distinct labels whose fitted slope is 0.
C5_Witness ==
  /\ RowAppended
  /\ FEq(fit.slope, Zero)
  /\ Cardinality(Unique(labels)) = 3
  /\ LastRow.x_zero = NA

\* C6: when every replicate within each level is identical (SS_pure_error is
\* 0), the lack-of-fit block does not fail on a division by zero: F and the
\* p-value are NaN, and the row shows them as an undefined value.
C6_ZeroPureErrorUndefined ==
  /\ [](((pc \in AfterLof \/ RowAppended) /\ FEq(lof.ss_pe, Zero)) =>
          /\ isnan(lof.F_lof)
          /\ isnan(lof.p_lof))
  /\ [](RowAppended /\ FEq(lof.ss_pe, Zero) =>
          /\ LastRow.F_lof.t = "nan"
          /\ LastRow.p_lof = NA)
  /\ [][pc = "lof" => pc' = "plot"]_vars

\* A row of three levels without scatter whose means are not on a line: the
\* lack-of-fit mean square is positive and the pure-error one is 0.
C6_Witness ==
  /\ RowAppended
  /\ FEq(lof.ss_pe, Zero)
  /\ lof.df_lof = 1
  /\ lof.ms_lof.k = "num" /\ lof.ms_lof.n > 0
  /\ LastRow.p_lof = NA

\* C7: sheets are processed one at a time in workbook order and the summary
\* is appended to once per sheet, after the sheet's computation and plot:
\* row i is the row of sheet i, after the loop there is one row per sheet,
\* and a step either leaves the summary alone or, at the append statement
\* of sheet idx, adds one row at its end.
C7_OneRowPerSheetInOrder ==
  /\ [](/\ \A i \in 1..Len(summary_data) : summary_data[i].name = sheets[i]
        /\ pc # "raised" => Len(summary_data) = idx - 1
        /\ pc = "done" => Len(summary_data) = Len(sheets))
  /\ [][\/ summary_data' = summary_data
        \/ /\ pc = "append"
           /\ Len(summary_data') = Len(summary_data) + 1
           /\ SubSeq(summary_data', 1, Len(summary_data)) = summary_data
           /\ summary_data'[Len(summary_data')].name = sheets[idx]
           /\ idx' = idx + 1]_vars

\* The loop over a workbook of two sheets has ended with two rows.
C7_Witness ==
  /\ pc = "done"
  /\ Len(sheets) = 2
  /\ Len(summary_data) = 2
  /\ summary_data[1].name # summary_data[2].name

\* C8: df_pure_error is (number of distinct levels) x (replicates per level
\* - 1), the replicates of a level being the areas pooled at that level,
\* also when groups share a label and when a label is NaN.
C8_PureErrorDf ==
  pc \in AfterLof =>
    \A conc \in Unique(lof.all_x) :
      lof.df_pe = Cardinality(Unique(lof.all_x))
                    * (Len(YRep(lof.all_x, lof.all_y, conc)) - 1)

RECURSIVE TrapezoidSum(_, _, _)
\* The sum over consecutive rows i, from row i on, of
\* (t[i+1] - t[i]) * (y[i] + y[i+1]) / 2.
TrapezoidSum(t, y, i) ==
  IF i >= Len(t) THEN Zero
  ELSE FAdd(FDiv(FMul(FSub(t[i + 1], t[i]), FAdd(y[i], y[i + 1])), Int2F(2)),
            TrapezoidSum(t, y, i + 1))

HasNaN(s) == \E i \in 1..Len(s) : isnan(s[i])

\* Every group has 3 areas, each the trapezoid sum of its column over time;
\* no cell halts the reduction.
AreasAreTrapezoids ==
  /\ pc = "fit" =>
       /\ Len(areas) = Len(grouped_cols)
       /\ \A g \in 1..Len(areas) :
            /\ Len(areas[g]) = 3
            /\ \A j \in 1..3 :
                 areas[g][j] =
                   TrapezoidSum(time, BodyOf(df, grouped_cols[g][j]), 1)
  /\ pc = "raised" => (Width(df) = 0 \/ SomeHeaderRejected)

\* C9, as amended: the AUC of every replicate column is the trapezoid sum of
\* the column over the time vector, every group yields 3 of them, and when
\* the body has at least two rows an undefined time or signal cell makes the
\* AUC of the column NaN; it never halts the sheet.
C9_TrapezoidAreas ==
  /\ AreasAreTrapezoids
  /\ (pc = "fit" /\ Len(time) >= 2) =>
       \A g \in 1..Len(areas) : \A j \in 1..3 :
         (HasNaN(time) \/ HasNaN(BodyOf(df, grouped_cols[g][j])))
           => isnan(areas[g][j])

\* C9: the AUC of every replicate column is the trapezoid sum of the column
\* over the time vector, every group yields 3 of them, and an undefined time
\* or signal cell makes the AUC of the column NaN.
C9_AnyUndefinedCellUndefinedArea ==
  /\ AreasAreTrapezoids
  /\ pc = "fit" =>
       \A g \in 1..Len(areas) : \A j \in 1..3 :
         (HasNaN(time) \/ HasNaN(BodyOf(df, grouped_cols[g][j])))
           => isnan(areas[g][j])

\* A column with a malformed cell in a body of two rows or more, next to a
\* column of numbers only: the first AUC is NaN, the third a number.
C9_Witness ==
  /\ pc = "fit"
  /\ Len(time) >= 2
  /\ ~HasNaN(time)
  /\ HasNaN(BodyOf(df, 1))
  /\ isnan(areas[1][1])
  /\ areas[1][3].k = "num" /\ areas[1][3].n # 0

\* C10: the results table is written once, after the loop over all sheets:
\* when the processing of sheet idx raises, the plots of the sheets before
\* it are saved and their rows are in the summary, but no table is written,
\* and nothing runs after the raise.
C10_TableOnlyAfterLoop ==
  /\ [](/\ pc = "raised" =>
             /\ ~table.written
             /\ Len(summary_data) = idx - 1
             /\ \A i \in 1..(idx - 1) : PlotFile(sheets[i]) \in files
        /\ table.written => (pc = "done" /\ table.rows = summary_data))
  /\ [][/\ pc = "raised" => FALSE
        /\ table' # table =>
             (pc = "read" /\ idx > Len(sheets) /\ ~table.written)]_vars

\* The second sheet raised after the first got its plot and its row.
C10_Witness ==
  /\ pc = "raised"
  /\ idx = 2
  /\ Len(summary_data) = 1
  /\ files = {PlotFile(sheets[1])}
  /\ ~table.written

=============================================================================
